---- MODULE Spec2Model ----
(***************************************************************************)
(* A model of autobot.py (DynamicBot): the endpoint selector, the          *)
(* allocation engine, the command interpreter, the history tracker and     *)
(* the two cooperatively scheduled cycles that share them.                 *)
(*                                                                         *)
(* Units.  Preference multipliers are kept in tenths (10 stands for 1.0,   *)
(* 1 for 0.1), TAO amounts in whole units, and a staked amount             *)
(* stake_amount * multiplier therefore in tenths of a unit.                *)
(***************************************************************************)
EXTENDS Integers, Sequences, FiniteSets, TLC

(***************************************************************************)
(* Bounds of the model.                                                    *)
(***************************************************************************)
MaxSubnets == 2      \* longest subnet listing handed to select_best_subnet
MaxBlock == 2        \* last block height the chain reaches
MaxMsgs == 2         \* inbound control messages delivered in one run
MaxParseMsgs == 1    \* the same, in the runs of SpecParse
MaxHistMsgs == 3     \* the same, in the runs of SpecHistory
MaxPrefCmds == 4     \* /boost and /slash commands in a run of SpecPrefs
MaxRoundTrips == 10  \* /boost-then-/slash pairs in a run of SpecRoundTrip

(***************************************************************************)
(* Python's None: an optional value is a sequence of at most one element.  *)
(***************************************************************************)
None == <<>>

Some(x) == <<x>>

(***************************************************************************)
(* str(netuid): the preference map is keyed by the decimal text of the id. *)
(***************************************************************************)
Str(n) ==
    CASE n = 0 -> "0"
      [] n = 1 -> "1"
      [] n = 2 -> "2"
      [] n = 3 -> "3"
      [] n = 5 -> "5"
      [] OTHER -> "?"

(***************************************************************************)
(* preferences.get(str(netuid), 1.0), in tenths.                           *)
(***************************************************************************)
PrefGet(preferences, netuid) ==
    IF Str(netuid) \in DOMAIN preferences THEN preferences[Str(netuid)] ELSE 10

(***************************************************************************)
(* A score is the rational  num / den  with den > 0.  The effective score  *)
(* of a subnet is (tao_in_emission / price) * pref_multiplier.             *)
(***************************************************************************)
ZeroScore == [num |-> 0, den |-> 1]

EffectiveScore(s, preferences) ==
    [num |-> s.tao_in_emission * PrefGet(preferences, s.netuid),
     den |-> s.price * 10]

ScoreGT(a, b) == a.num * b.den > b.num * a.den

ScoreGE(a, b) == a.num * b.den >= b.num * a.den

(***************************************************************************)
(* select_best_subnet: one pass over the listing, keeping the running best *)
(* (index into the listing, 0 for None) and its score.  A price that does  *)
(* not convert to a number (priceOk = FALSE) skips the subnet.             *)
(***************************************************************************)
SelectSkipsListedToo(s, exclude_list) ==
    \/ s.netuid = 0
    \/ ~s.priceOk
    \/ s.price <= 0

SelectSkips(s, exclude_list) ==
    \/ s.netuid = 0
    \/ s.netuid \in exclude_list
    \/ ~s.priceOk
    \/ s.price <= 0

RECURSIVE SelectLoopLast(_, _, _, _, _, _)
SelectLoopLast(subnets, exclude_list, preferences, i, best, best_score) ==
    IF i > Len(subnets) THEN [best |-> best, score |-> best_score]
    ELSE IF SelectSkips(subnets[i], exclude_list)
         THEN SelectLoopLast(subnets, exclude_list, preferences, i + 1, best, best_score)
         ELSE IF ScoreGE(EffectiveScore(subnets[i], preferences), best_score)
                 /\ ScoreGT(EffectiveScore(subnets[i], preferences), ZeroScore)
              THEN SelectLoopLast(subnets, exclude_list, preferences, i + 1, i,
                                  EffectiveScore(subnets[i], preferences))
              ELSE SelectLoopLast(subnets, exclude_list, preferences, i + 1, best, best_score)

RECURSIVE SelectLoop(_, _, _, _, _, _)
SelectLoop(subnets, exclude_list, preferences, i, best, best_score) ==
    IF i > Len(subnets) THEN [best |-> best, score |-> best_score]
    ELSE IF SelectSkips(subnets[i], exclude_list)
         THEN SelectLoop(subnets, exclude_list, preferences, i + 1, best, best_score)
         ELSE IF ScoreGT(EffectiveScore(subnets[i], preferences), best_score)
              THEN SelectLoop(subnets, exclude_list, preferences, i + 1, i,
                              EffectiveScore(subnets[i], preferences))
              ELSE SelectLoop(subnets, exclude_list, preferences, i + 1, best, best_score)

select_best_subnet(subnets, exclude_list, preferences) ==
    SelectLoop(subnets, exclude_list, preferences, 1, 0, ZeroScore)

(***************************************************************************)
(* State.                                                                  *)
(***************************************************************************)
VARIABLES
    sel_subnets,     \* select_best_subnet: the listing
    sel_exclude,     \* select_best_subnet: the exclusion list
    sel_prefs,       \* select_best_subnet: the preference map
    sel_out          \* select_best_subnet: None before the call, then its result

selVars == <<sel_subnets, sel_exclude, sel_prefs, sel_out>>

VARIABLES
    acq_pc,          \* get_working_subtensor: "run", "connected" or "exhausted"
    acq_ep,          \* index into ENDPOINTS of the endpoint being tried
    acq_attempt,     \* tenacity's attempt number on that endpoint, from 1
    acq_log,         \* one entry per attempt made: endpoint, outcome, closed
    acq_handle       \* None, or the endpoint whose session was returned

acqVars == <<acq_pc, acq_ep, acq_attempt, acq_log, acq_handle>>

VARIABLES
    tokenSet,        \* config.telegram_token is set
    paused,          \* config.paused
    preferences,     \* config.preferences: str(netuid) -> multiplier (tenths)
    exclude_list,    \* config.exclude_list, a Python list
    stake_amount     \* config.stake_amount

cfgVars == <<tokenSet, paused, preferences, exclude_list, stake_amount>>

VARIABLES
    last_history_snapshot,   \* the global of line 18: None or Some(snapshot)
    accumulated_history,     \* the global of line 19
    purchase_history         \* main_loop's batch buffer

histVars == <<last_history_snapshot, accumulated_history, purchase_history>>

VARIABLES
    chain_block,     \* the chain: current block height
    chain_price,     \* the chain: unit price of subnets 1 and 2
    chain_stake,     \* the chain: the wallet's stake per subnet (tenths)
    chain_balance    \* the chain: the wallet's free balance (tenths)

chainVars == <<chain_block, chain_price, chain_stake, chain_balance>>

VARIABLES
    b_pc,            \* block cycle: the await it is suspended at
    b_sub,           \* main_loop's sub: None or Some(endpoint)
    b_stake_amount,  \* process_block's local stake_amount (line 563)
    b_block,         \* process_block's current_block
    b_subnets,       \* process_block's subnets
    b_chosen,        \* process_block's chosen_subnet (its netuid) or None
    b_stake_action,  \* process_block's stake_action, by kind
    b_sel,           \* locals live across the add_stake await, or None
    b_calls          \* add_stake calls issued in this iteration

blkVars == <<b_pc, b_sub, b_stake_amount, b_block, b_subnets, b_chosen,
             b_stake_action, b_sel, b_calls>>

VARIABLES
    c_pc,            \* control cycle: the await it is suspended at
    c_batch,         \* updates of the current poll not yet handled
    c_msg,           \* parts of the message last handed to the handler
    c_replies,       \* replies sent for that message, in order
    c_report,        \* figures of the last history summary, or None
    c_sub,           \* the handler's sub: None or Some(endpoint)
    c_loc,           \* the handler's locals live across its awaits
    offset,          \* poll_telegram_updates: the poll cursor
    next_id,         \* messaging service: id of the next update
    msgs_left        \* messages the operator may still send

ctlVars == <<c_pc, c_batch, c_msg, c_replies, c_report, c_sub, c_loc, offset,
             next_id, msgs_left>>

VARIABLES
    n_sessions,      \* gateway sessions handed out so far
    open_sessions    \* those of them not yet closed

gwVars == <<n_sessions, open_sessions>>

VARIABLES
    g_snap_info,            \* history: prices the stored snapshot was valued at
    g_alloc_since_report,   \* history: an allocation since the last summary
    g_since_snapshot,       \* amounts of the events created since a snapshot was stored
    g_allocated,            \* amounts of all events created so far
    g_reported              \* the "amount staked" figures of all summaries so far

ghostVars == <<g_snap_info, g_alloc_since_report, g_since_snapshot, g_allocated,
               g_reported>>

VARIABLES
    pf_start,        \* boost/slash runs: config.preferences at the start
    pf_n,            \* the number of commands handled so far
    pf_last,         \* the last command handled (its tokens)
    pf_hit           \* a /slash has been clamped to the floor (line 371)

prefVars == <<pf_start, pf_n, pf_last, pf_hit>>

sysVars == <<cfgVars, histVars, chainVars, blkVars, ctlVars, gwVars, ghostVars>>

vars == <<selVars, acqVars, prefVars, sysVars>>

(***************************************************************************)
(* The inputs of select_best_subnet.                                       *)
(***************************************************************************)
NetuidVals == 0 .. 2
PriceVals == 0 .. 2
EmissionVals == 1 .. 2
PrefVals == {-10, 5, 20}

SubnetVals ==
    {s \in [netuid : NetuidVals, price : PriceVals, priceOk : BOOLEAN,
            tao_in_emission : EmissionVals] : s.priceOk \/ s.price = 0}

RECURSIVE SeqsUpTo(_, _)
SeqsUpTo(S, n) ==
    IF n = 0 THEN {<<>>}
    ELSE SeqsUpTo(S, n - 1)
         \cup {Append(q, x) : q \in {r \in SeqsUpTo(S, n - 1) : Len(r) = n - 1}, x \in S}

PrefMaps == UNION {[K -> PrefVals] : K \in SUBSET {"1", "2"}}

SelInit ==
    /\ sel_subnets \in SeqsUpTo(SubnetVals, MaxSubnets)
    /\ sel_exclude \in SUBSET {1, 2}
    /\ sel_prefs \in PrefMaps
    /\ sel_out = None

SelIdle ==
    /\ sel_subnets = <<>>
    /\ sel_exclude = {}
    /\ sel_prefs = <<>>
    /\ sel_out = None

Select ==
    /\ sel_out = None
    /\ sel_out' = Some(select_best_subnet(sel_subnets, sel_exclude, sel_prefs))
    /\ UNCHANGED <<sel_subnets, sel_exclude, sel_prefs>>
    /\ UNCHANGED <<acqVars, prefVars, sysVars>>

(***************************************************************************)
(* get_working_subtensor and get_and_test_subtensor.  One attempt opens a  *)
(* session on the endpoint (async_subtensor + initialize) and verifies it  *)
(* with get_current_block.  Its outcome is the environment's choice:       *)
(*   "ok"           both steps return, the open session is returned;       *)
(*   "init_fail"    initialize() raises: nothing closes the session;       *)
(*   "verify_fail"  get_current_block() raises: the session is closed and  *)
(*                  the error raised again.                                *)
(* tenacity retries a raising attempt until stop_after_attempt(3) holds,   *)
(* then raises RetryError, which get_working_subtensor catches to go on to *)
(* the next endpoint.                                                      *)
(***************************************************************************)
ENDPOINTS == <<"finney", "subvortex", "archive">>

MaxAttempts == 3

AttemptOutcomes == {"ok", "init_fail", "verify_fail"}

stop_after_attempt_off(attempt) == attempt > MaxAttempts

stop_after_attempt(attempt) == attempt >= MaxAttempts

\* line 53: the for-loop has another endpoint to go on to.
MoreEndpointsButLast(ep) == ep < Len(ENDPOINTS) - 1

MoreEndpoints(ep) == ep < Len(ENDPOINTS)

AcqInit ==
    /\ acq_pc = "run"
    /\ acq_ep = 1
    /\ acq_attempt = 1
    /\ acq_log = <<>>
    /\ acq_handle = None

AcqIdle ==
    /\ acq_pc = "idle"
    /\ acq_ep = 1
    /\ acq_attempt = 1
    /\ acq_log = <<>>
    /\ acq_handle = None

\* An attempt that returns: get_and_test_subtensor returns sub (line 43) and
\* get_working_subtensor returns it at once (line 55).
AttemptOk ==
    /\ acq_pc = "run"
    /\ acq_log' = Append(acq_log, [ep |-> acq_ep, outcome |-> "ok", closed |-> FALSE])
    /\ acq_handle' = Some(ENDPOINTS[acq_ep])
    /\ acq_pc' = "connected"
    /\ UNCHANGED <<acq_ep, acq_attempt>>
    /\ UNCHANGED <<selVars, prefVars, sysVars>>

\* An attempt that raises: retried on the same endpoint, or RetryError and
\* the next endpoint, or the final Exception of line 59.
AttemptFails(outcome) ==
    /\ acq_pc = "run"
    /\ outcome \in {"init_fail", "verify_fail"}
    /\ acq_log' = Append(acq_log, [ep |-> acq_ep, outcome |-> outcome,
                                   closed |-> (outcome = "verify_fail")])
    /\ IF ~stop_after_attempt(acq_attempt)
       THEN /\ acq_attempt' = acq_attempt + 1
            /\ UNCHANGED <<acq_ep, acq_pc>>
       ELSE IF MoreEndpoints(acq_ep)
            THEN /\ acq_ep' = acq_ep + 1
                 /\ acq_attempt' = 1
                 /\ UNCHANGED acq_pc
            ELSE /\ acq_pc' = "exhausted"
                 /\ UNCHANGED <<acq_ep, acq_attempt>>
    /\ UNCHANGED acq_handle
    /\ UNCHANGED <<selVars, prefVars, sysVars>>

AcqNext ==
    \/ AttemptOk
    \/ \E outcome \in {"init_fail", "verify_fail"} : AttemptFails(outcome)

(***************************************************************************)
(* The running system: main() gathers main_loop (the block cycle) and      *)
(* poll_telegram_updates (the control cycle) on one event loop.  A task    *)
(* runs from one await to the next without interruption, so every action   *)
(* below is the code between two awaits of one task.  The control cycle's  *)
(* for-loop over a poll's updates is split into one action per update;     *)
(* while it is in that loop (c_pc = "c_loop") it has not awaited, and no   *)
(* other task may run.                                                     *)
(***************************************************************************)
TelegramInterval == 2    \* config.telegram_update_interval

BTerminal == {"b_done", "b_crashed", "b_cancelled"}

CTerminal == {"c_off", "c_crashed", "c_cancelled"}

CtlSuspended == c_pc # "c_loop"

ListSet(l) == {l[i] : i \in DOMAIN l}

RECURSIVE SumSeq(_)
SumSeq(q) == IF q = <<>> THEN 0 ELSE Head(q) + SumSeq(Tail(q))

(***************************************************************************)
(* The chain as the gateway shows it.  all_subnets() lists subnets 0, 1    *)
(* and 2 in that order; get_stake_for_coldkey() lists the wallet's         *)
(* positions (all under the configured validator hotkey) in id order.      *)
(***************************************************************************)
ChainSubnets ==
    << [netuid |-> 0, price |-> 1, priceOk |-> TRUE, tao_in_emission |-> 2],
       [netuid |-> 1, price |-> chain_price[1], priceOk |-> TRUE, tao_in_emission |-> 1],
       [netuid |-> 2, price |-> chain_price[2], priceOk |-> TRUE, tao_in_emission |-> 1] >>

ChainStakeInfo ==
    SelectSeq(<< [netuid |-> 0, stake |-> chain_stake[0]],
                 [netuid |-> 1, stake |-> chain_stake[1]],
                 [netuid |-> 2, stake |-> chain_stake[2]] >>,
              LAMBDA pos : pos.stake > 0)

\* add_stake / unstake as the chain applies them (amounts in tenths).
ChainCanStake(amount) == amount > 0 /\ amount <= chain_balance

ChainCanUnstake(netuid, amount) ==
    netuid \in DOMAIN chain_stake /\ amount > 0 /\ amount <= chain_stake[netuid]

(***************************************************************************)
(* main_loop, line 626: get_working_subtensor() outside the try.  Its      *)
(* retries touch no shared state, so the call is one step whose result is  *)
(* a session or the Exception of line 59.  On success process_block runs   *)
(* up to its first await (line 568), copying config.stake_amount.          *)
(***************************************************************************)
B_Acquire(ok) ==
    /\ b_pc = "b_acquire"
    /\ CtlSuspended
    /\ IF ok
       THEN /\ n_sessions' = n_sessions + 1
            /\ open_sessions' = open_sessions \cup {n_sessions + 1}
            /\ b_sub' = Some(n_sessions + 1)
            /\ b_stake_amount' = stake_amount
            /\ b_pc' = "b_q_block"
       ELSE /\ b_pc' = "b_crashed"
            /\ UNCHANGED <<b_sub, b_stake_amount, n_sessions, open_sessions>>
    /\ UNCHANGED <<b_block, b_subnets, b_chosen, b_stake_action,
                   b_sel, b_calls>>
    /\ UNCHANGED <<cfgVars, histVars, chainVars, ctlVars, selVars, acqVars, prefVars, ghostVars>>

\* line 568 returns; line 569 is awaited.
B_GotBlock ==
    /\ b_pc = "b_q_block"
    /\ CtlSuspended
    /\ b_block' = chain_block
    /\ b_pc' = "b_q_subnets"
    /\ UNCHANGED <<b_sub, b_stake_amount, b_subnets, b_chosen, b_stake_action,
                   b_sel, b_calls>>
    /\ UNCHANGED <<cfgVars, histVars, chainVars, ctlVars, selVars, acqVars, prefVars, gwVars, ghostVars>>

\* line 569 returns; line 572 (get_stake_info) is awaited.
B_GotSubnets ==
    /\ b_pc = "b_q_subnets"
    /\ CtlSuspended
    /\ b_subnets' = ChainSubnets
    /\ b_pc' = "b_q_stake"
    /\ UNCHANGED <<b_sub, b_stake_amount, b_block, b_chosen, b_stake_action,
                   b_sel, b_calls>>
    /\ UNCHANGED <<cfgVars, histVars, chainVars, ctlVars, selVars, acqVars, prefVars, gwVars, ghostVars>>

\* lines 572-584 and 598-602: selection, the pause test and, when staking,
\* the add_stake call; otherwise straight on to the refresh of line 602.
StakesThoughPaused(is_paused, r) == r.best # 0 /\ ScoreGT(r.score, ZeroScore)

\* line 578
ShouldStake(is_paused, r) == ~is_paused /\ r.best # 0 /\ ScoreGT(r.score, ZeroScore)

B_Allocate ==
    /\ b_pc = "b_q_stake"
    /\ CtlSuspended
    /\ LET r == select_best_subnet(b_subnets, ListSet(exclude_list), preferences)
           chosen_netuid == b_subnets[r.best].netuid
           pref_multiplier == PrefGet(preferences, chosen_netuid)
       IN /\ b_chosen' = IF r.best = 0 THEN None ELSE Some(chosen_netuid)
          /\ IF ShouldStake(paused, r)
             THEN /\ b_sel' = Some([netuid |-> chosen_netuid,
                                    pref_multiplier |-> pref_multiplier,
                                    actual_stake |-> b_stake_amount * pref_multiplier])
                  /\ b_stake_action' = "Stake"
                  /\ b_calls' = b_calls + 1
                  /\ b_pc' = "b_staking"
             ELSE /\ b_sel' = None
                  /\ b_stake_action' = IF paused THEN "Paused" ELSE ""
                  /\ b_pc' = "b_q_refresh"
                  /\ UNCHANGED b_calls
    /\ UNCHANGED <<b_sub, b_stake_amount, b_block, b_subnets>>
    /\ UNCHANGED <<cfgVars, histVars, chainVars, ctlVars, selVars, acqVars, prefVars, gwVars, ghostVars>>

purchase_event ==
    [block |-> b_block,
     netuid |-> b_sel[1].netuid,
     stake_amount |-> b_sel[1].actual_stake,
     pref_multiplier |-> b_sel[1].pref_multiplier]

RecordedTwice(buffer, event) == Append(Append(buffer, event), event)

\* lines 594-595
Recorded(buffer, event) == Append(buffer, event)

\* lines 584-597: add_stake returns (the event goes to both buffers) or
\* raises (caught, no event); line 602 is awaited either way.
B_StakeReturns(ok) ==
    /\ b_pc = "b_staking"
    /\ CtlSuspended
    /\ IF ok
       THEN /\ ChainCanStake(b_sel[1].actual_stake)
            /\ chain_balance' = chain_balance - b_sel[1].actual_stake
            /\ chain_stake' = [chain_stake EXCEPT
                                 ![b_sel[1].netuid] = @ + b_sel[1].actual_stake]
            /\ purchase_history' = Recorded(purchase_history, purchase_event)
            /\ accumulated_history' = Recorded(accumulated_history, purchase_event)
            /\ g_alloc_since_report' = TRUE
            /\ g_since_snapshot' = g_since_snapshot + purchase_event.stake_amount
            /\ g_allocated' = g_allocated + purchase_event.stake_amount
            /\ UNCHANGED b_stake_action
       ELSE /\ b_stake_action' = "Stake error"
            /\ UNCHANGED <<chain_balance, chain_stake, purchase_history,
                           accumulated_history, g_alloc_since_report,
                           g_since_snapshot, g_allocated>>
    /\ b_sel' = None
    /\ b_pc' = "b_q_refresh"
    /\ UNCHANGED <<b_sub, b_stake_amount, b_block, b_subnets, b_chosen, b_calls>>
    /\ UNCHANGED <<chain_block, chain_price, last_history_snapshot, g_snap_info,
                   g_reported>>
    /\ UNCHANGED <<cfgVars, ctlVars, selVars, acqVars, prefVars, gwVars>>

\* line 602 returns; line 603 is awaited.
B_GotRefresh ==
    /\ b_pc = "b_q_refresh"
    /\ CtlSuspended
    /\ b_pc' = "b_q_balance"
    /\ UNCHANGED <<b_sub, b_stake_amount, b_block, b_subnets, b_chosen, b_stake_action,
                   b_sel, b_calls>>
    /\ UNCHANGED <<cfgVars, histVars, chainVars, ctlVars, selVars, acqVars, prefVars, gwVars, ghostVars>>

DigestDueWhenNonEmpty(current_block, buffer) == buffer # <<>>

\* line 615
DigestDue(current_block, buffer) ==
    current_block % TelegramInterval = 0 /\ buffer # <<>>

\* lines 603-622: the display (the last use of subnets), then either the
\* digest is handed to a thread (line 618) or wait_for_block is awaited.
B_GotBalance ==
    /\ b_pc = "b_q_balance"
    /\ CtlSuspended
    /\ b_pc' = IF DigestDue(b_block, purchase_history)
               THEN "b_sending" ELSE "b_wait"
    /\ b_subnets' = <<>>
    /\ UNCHANGED <<b_sub, b_stake_amount, b_block, b_chosen, b_stake_action,
                   b_sel, b_calls>>
    /\ UNCHANGED <<cfgVars, histVars, chainVars, ctlVars, selVars, acqVars, prefVars, gwVars, ghostVars>>

\* lines 618-622: send_telegram_message has returned (it swallows its own
\* errors); the batch buffer is cleared and wait_for_block awaited.
B_Sent ==
    /\ b_pc = "b_sending"
    /\ CtlSuspended
    /\ purchase_history' = <<>>
    /\ b_pc' = "b_wait"
    /\ UNCHANGED <<b_sub, b_stake_amount, b_block, b_subnets, b_chosen, b_stake_action,
                   b_sel, b_calls>>
    /\ UNCHANGED <<last_history_snapshot, accumulated_history>>
    /\ UNCHANGED <<cfgVars, chainVars, ctlVars, selVars, acqVars, prefVars, gwVars, ghostVars>>

\* lines 622-630 and 560-568: the next block has come; the next iteration
\* starts and runs to its first await.
B_NextBlock ==
    /\ b_pc = "b_wait"
    /\ CtlSuspended
    /\ chain_block > b_block
    /\ b_stake_amount' = stake_amount
    /\ b_calls' = 0
    /\ b_chosen' = None
    /\ b_stake_action' = ""
    /\ b_pc' = "b_q_block"
    /\ UNCHANGED <<b_sub, b_block, b_subnets, b_sel>>
    /\ UNCHANGED <<cfgVars, histVars, chainVars, ctlVars, selVars, acqVars, prefVars, gwVars, ghostVars>>

\* lines 631-634: a gateway call of process_block raises; main_loop prints
\* the error, breaks and awaits sub.close().  process_block's locals are
\* gone with its frame.
BQueryPcs == {"b_q_block", "b_q_subnets", "b_q_stake", "b_q_refresh",
              "b_q_balance", "b_wait"}

B_QueryFails ==
    /\ b_pc \in BQueryPcs
    /\ CtlSuspended
    /\ b_pc' = "b_closing"
    /\ b_stake_amount' = 0
    /\ b_block' = 0
    /\ b_subnets' = <<>>
    /\ b_chosen' = None
    /\ b_stake_action' = ""
    /\ UNCHANGED <<b_sub, b_sel, b_calls>>
    /\ UNCHANGED <<cfgVars, histVars, chainVars, ctlVars, selVars, acqVars, prefVars, gwVars, ghostVars>>

\* line 634 returns: main_loop returns normally.
B_Closed ==
    /\ b_pc = "b_closing"
    /\ CtlSuspended
    /\ open_sessions' = open_sessions \ {b_sub[1]}
    /\ b_sub' = None
    /\ b_pc' = "b_done"
    /\ UNCHANGED <<b_stake_amount, b_block, b_subnets, b_chosen, b_stake_action,
                   b_sel, b_calls, n_sessions>>
    /\ UNCHANGED <<cfgVars, histVars, chainVars, ctlVars, selVars, acqVars, prefVars, ghostVars>>

(***************************************************************************)
(* The chain produces a block, with new prices, while the block cycle      *)
(* waits for one.                                                          *)
(***************************************************************************)
ChainTick(price) ==
    /\ chain_block < MaxBlock
    /\ CtlSuspended
    /\ b_pc = "b_wait"
    /\ chain_block = b_block
    /\ chain_block' = chain_block + 1
    /\ chain_price' = price
    /\ UNCHANGED <<chain_stake, chain_balance>>
    /\ UNCHANGED <<cfgVars, histVars, blkVars, ctlVars, selVars, acqVars, prefVars, gwVars, ghostVars>>

(***************************************************************************)
(* main(), lines 649-652: asyncio.gather without return_exceptions.  An    *)
(* exception that escapes one task is raised out of main(); asyncio.run    *)
(* then cancels the other task at the await it is suspended at            *)
(* (CancelledError is not an Exception, so main_loop's except clause does  *)
(* not run and its sub is not closed).  A task that returns normally       *)
(* leaves gather waiting for the other.                                    *)
(***************************************************************************)
CancelBlockCycle ==
    /\ c_pc = "c_crashed"
    /\ b_pc \notin BTerminal
    /\ b_pc' = "b_cancelled"
    /\ UNCHANGED <<b_sub, b_stake_amount, b_block, b_subnets, b_chosen, b_stake_action,
                   b_sel, b_calls>>
    /\ UNCHANGED <<cfgVars, histVars, chainVars, ctlVars, selVars, acqVars, prefVars, gwVars, ghostVars>>

CancelControlCycle ==
    /\ b_pc = "b_crashed"
    /\ CtlSuspended
    /\ c_pc \notin CTerminal
    /\ c_pc' = "c_cancelled"
    /\ UNCHANGED <<c_batch, c_msg, c_replies, c_report, c_sub, c_loc, offset,
                   next_id, msgs_left>>
    /\ UNCHANGED <<cfgVars, histVars, chainVars, blkVars, selVars, acqVars, prefVars, gwVars, ghostVars>>

(***************************************************************************)
(* Message text, as handle_telegram_command sees it after                  *)
(* text.strip().split(): a sequence of tokens.  int() and float() are      *)
(* partial: IsInt / IsFloat say where they return rather than raise        *)
(* ValueError.  Amounts on the wire are whole units.                       *)
(***************************************************************************)
Lower(tok) ==
    CASE tok = "/PAUSE" -> "/pause"
      [] tok = "/Start" -> "/start"
      [] OTHER -> tok

IsInt(tok) == tok \in {"-1", "0", "1", "2", "3", "5"}

IsFloat(tok) == IsInt(tok) \/ tok = "1e0"

NumVal(tok) ==
    CASE tok = "-1" -> -1
      [] tok = "0" -> 0
      [] tok = "1" -> 1
      [] tok = "2" -> 2
      [] tok = "3" -> 3
      [] tok = "5" -> 5
      [] tok = "1e0" -> 1

NetuidCmds == {"/info", "/boost", "/slash", "/exclude", "/unstake", "/stake"}

GatewayCmds == {"/balance", "/history", "/info", "/unstake", "/stake"}

NoLoc ==
    [cmd |-> "", netuid |-> 0, amount |-> 0, q |-> 0, current_block |-> 0,
     subnets |-> <<>>, stake_info |-> <<>>, wallet_balance |-> 0]

(***************************************************************************)
(* handle_telegram_command up to its first await, as the effect it has:    *)
(* the new SharedOperatingState, the replies sent, and how it leaves       *)
(* ("return", "raise", or "acquire" when it awaits get_working_subtensor). *)
(***************************************************************************)
Effect(replies, next) ==
    [paused |-> paused, preferences |-> preferences, exclude_list |-> exclude_list,
     stake_amount |-> stake_amount, replies |-> replies, next |-> next,
     loc |-> NoLoc]

SetPref(netuid, new_pref) ==
    [k \in DOMAIN preferences \cup {Str(netuid)} |->
        IF k = Str(netuid) THEN new_pref ELSE preferences[k]]

BoostTwice(netuid) ==
    [Effect(<<"pref">>, "return") EXCEPT
        !.preferences = SetPref(netuid, PrefGet(preferences, netuid) + 2)]

\* lines 362-366
Boost(netuid) ==
    [Effect(<<"pref">>, "return") EXCEPT
        !.preferences = SetPref(netuid, PrefGet(preferences, netuid) + 1)]

SlashNoFloor(netuid) ==
    LET new_pref == PrefGet(preferences, netuid) - 1
    IN [Effect(<<"pref">>, "return") EXCEPT
           !.preferences = SetPref(netuid, new_pref)]

\* lines 368-374
Slash(netuid) ==
    LET new_pref == PrefGet(preferences, netuid) - 1
    IN [Effect(<<"pref">>, "return") EXCEPT
           !.preferences = SetPref(netuid, IF new_pref < 1 THEN 1 ELSE new_pref)]

\* lines 376-381
Exclude(netuid) ==
    IF netuid \notin ListSet(exclude_list)
    THEN [Effect(<<"excluded">>, "return") EXCEPT
             !.exclude_list = Append(exclude_list, netuid)]
    ELSE Effect(<<"already_excluded">>, "return")

Acquire(cmd, netuid, amount) ==
    [Effect(<<>>, "acquire") EXCEPT
        !.loc = [NoLoc EXCEPT !.cmd = cmd, !.netuid = netuid, !.amount = amount]]

\* lines 383-391 and 404-412
StakeCmd(cmd, parts) ==
    IF Len(parts) < 3 THEN Effect(<<"usage">>, "return")
    ELSE IF ~IsFloat(parts[3]) THEN Effect(<<"usage">>, "return")
    ELSE Acquire(cmd, NumVal(parts[2]), NumVal(parts[3]))

\* lines 425-432: parts[1] of a one-token message raises IndexError, which
\* the except ValueError clause does not catch.
Amount(parts) ==
    IF Len(parts) < 2 THEN Effect(<<>>, "raise")
    ELSE IF ~IsFloat(parts[2]) THEN Effect(<<"usage">>, "return")
    ELSE [Effect(<<"amount">>, "return") EXCEPT !.stake_amount = NumVal(parts[2])]

\* lines 304-432, once the netuid (if any) is parsed; an unrecognised
\* command matches no branch and the handler returns without a reply.
Branch(cmd, parts) ==
    IF cmd = "/info" THEN Acquire(cmd, NumVal(parts[2]), 0)
    ELSE IF cmd = "/boost" THEN Boost(NumVal(parts[2]))
    ELSE IF cmd = "/slash" THEN Slash(NumVal(parts[2]))
    ELSE IF cmd = "/exclude" THEN Exclude(NumVal(parts[2]))
    ELSE IF cmd \in {"/unstake", "/stake"} THEN StakeCmd(cmd, parts)
    ELSE IF cmd = "/amount" THEN Amount(parts)
    ELSE Effect(<<>>, "return")

\* lines 156-302
Handle(parts) ==
    IF Len(parts) < 1 THEN Effect(<<"invalid">>, "return")
    ELSE LET cmd == Lower(parts[1])
         IN IF cmd = "/pause"
            THEN [Effect(<<"paused">>, "return") EXCEPT !.paused = TRUE]
            ELSE IF cmd = "/start"
            THEN [Effect(<<"resumed">>, "return") EXCEPT !.paused = FALSE]
            ELSE IF cmd \in {"/balance", "/history"} THEN Acquire(cmd, 0, 0)
            ELSE IF cmd \in NetuidCmds /\ Len(parts) < 2
            THEN Effect(<<"usage">>, "return")
            ELSE IF cmd \in NetuidCmds /\ ~IsInt(parts[2])
            THEN Effect(<<"usage">>, "return")
            ELSE Branch(cmd, parts)

(***************************************************************************)
(* poll_telegram_updates.                                                  *)
(***************************************************************************)
\* Where the for-loop of line 131 goes when a handler returns.
LoopNext(rest) == IF rest = <<>> THEN "c_sleep" ELSE "c_loop"

MaxKeepsCursor(a, b) == a

\* line 132
Max(a, b) == IF a >= b THEN a ELSE b

\* The updates a poll returns for the texts in `batch`: ids from next_id.
Updates(batch) ==
    [i \in 1 .. Len(batch) |->
        [update_id |-> next_id + i - 1, hasText |-> batch[i].hasText,
         parts |-> batch[i].parts]]

\* lines 124-131: the request returns a batch.
C_PollOk(batch) ==
    /\ c_pc = "c_poll"
    /\ Len(batch) <= msgs_left
    /\ c_batch' = Updates(batch)
    /\ next_id' = next_id + Len(batch)
    /\ msgs_left' = msgs_left - Len(batch)
    /\ c_pc' = LoopNext(batch)
    /\ UNCHANGED <<c_msg, c_replies, c_report, c_sub, c_loc, offset>>
    /\ UNCHANGED <<cfgVars, histVars, chainVars, blkVars, selVars, acqVars, prefVars, gwVars, ghostVars>>

\* lines 126-129: the request or response.json() raises; sleep and retry.
C_PollFails ==
    /\ c_pc = "c_poll"
    /\ c_pc' = "c_sleep"
    /\ UNCHANGED <<c_batch, c_msg, c_replies, c_report, c_sub, c_loc, offset,
                   next_id, msgs_left>>
    /\ UNCHANGED <<cfgVars, histVars, chainVars, blkVars, selVars, acqVars, prefVars, gwVars, ghostVars>>

\* lines 128/137 and 121-124: the sleep ends and the next request is made.
\* What was recorded of the last message handled is dropped here.
C_Wake ==
    /\ c_pc = "c_sleep"
    /\ c_pc' = "c_poll"
    /\ c_msg' = None
    /\ c_replies' = <<>>
    /\ c_report' = None
    /\ UNCHANGED <<c_batch, c_sub, c_loc, offset, next_id, msgs_left>>
    /\ UNCHANGED <<cfgVars, histVars, chainVars, blkVars, selVars, acqVars, prefVars, gwVars, ghostVars>>

\* lines 131-136: the next update of the batch; a text message is handed to
\* handle_telegram_command, which runs to its first await or to its end.
C_Dispatch ==
    /\ c_pc = "c_loop"
    /\ LET update == Head(c_batch)
           eff == Handle(update.parts)
       IN /\ offset' = Max(offset, update.update_id + 1)
          /\ c_batch' = Tail(c_batch)
          /\ IF ~update.hasText
             THEN /\ c_pc' = LoopNext(Tail(c_batch))
                  /\ UNCHANGED <<c_msg, c_replies, c_report, c_loc, cfgVars>>
             ELSE /\ c_msg' = Some(update.parts)
                  /\ c_replies' = eff.replies
                  /\ c_report' = None
                  /\ c_loc' = eff.loc
                  /\ paused' = eff.paused
                  /\ preferences' = eff.preferences
                  /\ exclude_list' = eff.exclude_list
                  /\ stake_amount' = eff.stake_amount
                  /\ c_pc' = CASE eff.next = "return" -> LoopNext(Tail(c_batch))
                               [] eff.next = "raise" -> "c_crashed"
                               [] eff.next = "acquire" -> "c_acquire"
                  /\ UNCHANGED tokenSet
    /\ UNCHANGED <<c_sub, next_id, msgs_left>>
    /\ UNCHANGED <<histVars, chainVars, blkVars, selVars, acqVars, prefVars, gwVars, ghostVars>>

(***************************************************************************)
(* The gateway commands after their first await.                           *)
(***************************************************************************)
Queries(cmd) ==
    CASE cmd = "/balance" -> <<"block", "stake", "balance">>
      [] cmd = "/history" -> <<"block", "subnets", "stake", "balance">>
      [] cmd = "/info" -> <<"block", "subnets", "stake">>
      [] OTHER -> <<>>

\* The handler's locals once the awaited query has returned.
Stored(loc) ==
    LET query == Queries(loc.cmd)[loc.q]
    IN CASE query = "block" -> [loc EXCEPT !.current_block = chain_block]
         [] query = "subnets" -> [loc EXCEPT !.subnets = ChainSubnets]
         [] query = "stake" -> [loc EXCEPT !.stake_info = ChainStakeInfo]
         [] query = "balance" -> [loc EXCEPT !.wallet_balance = chain_balance]

\* get_working_subtensor returns (a fresh session) or raises (lines 177-181,
\* 213-217, 305-309, 392-396, 413-417).
C_Acquired(ok) ==
    /\ c_pc = "c_acquire"
    /\ IF ok
       THEN /\ n_sessions' = n_sessions + 1
            /\ open_sessions' = open_sessions \cup {n_sessions + 1}
            /\ c_sub' = Some(n_sessions + 1)
            /\ IF c_loc.cmd \in {"/stake", "/unstake"}
               THEN c_pc' = "c_mut" /\ UNCHANGED c_loc
               ELSE c_pc' = "c_q" /\ c_loc' = [c_loc EXCEPT !.q = 1]
            /\ UNCHANGED c_replies
       ELSE /\ c_replies' = Append(c_replies, "conn_error")
            /\ c_pc' = LoopNext(c_batch)
            /\ c_loc' = NoLoc
            /\ UNCHANGED <<n_sessions, open_sessions, c_sub>>
    /\ UNCHANGED <<c_batch, c_msg, c_report, offset, next_id, msgs_left>>
    /\ UNCHANGED <<cfgVars, histVars, chainVars, blkVars, selVars, acqVars, prefVars, ghostVars>>

\* A query raises: the error reply, then await sub.close() (lines 186-189,
\* 223-226, 314-317, 337-340).
C_QueryFails ==
    /\ c_pc = "c_q"
    /\ c_replies' = Append(c_replies, "query_error")
    /\ c_pc' = "c_close"
    /\ UNCHANGED <<c_batch, c_msg, c_report, c_sub, c_loc, offset, next_id,
                   msgs_left, n_sessions, open_sessions>>
    /\ UNCHANGED <<cfgVars, histVars, chainVars, blkVars, selVars, acqVars, prefVars, ghostVars>>

\* /info, lines 319-323: the first listed subnet with the asked netuid.
InfoTarget(subnets, netuid) ==
    {i \in DOMAIN subnets : subnets[i].netuid = netuid}

\* A query returns and the next one is awaited; for /info the listing is
\* searched first and "not found" replied (lines 319-328).
C_QueryNext ==
    /\ c_pc = "c_q"
    /\ c_loc.q < Len(Queries(c_loc.cmd))
    /\ IF c_loc.cmd = "/info" /\ c_loc.q = 2
          /\ InfoTarget(ChainSubnets, c_loc.netuid) = {}
       THEN /\ c_replies' = Append(c_replies, "not_found")
            /\ c_pc' = "c_close"
            /\ c_loc' = Stored(c_loc)
       ELSE /\ c_loc' = [Stored(c_loc) EXCEPT !.q = c_loc.q + 1]
            /\ UNCHANGED <<c_replies, c_pc>>
    /\ UNCHANGED <<c_batch, c_msg, c_report, c_sub, offset, next_id, msgs_left,
                   n_sessions, open_sessions>>
    /\ UNCHANGED <<cfgVars, histVars, chainVars, blkVars, selVars, acqVars, prefVars, ghostVars>>

\* /balance, lines 185-208.  Line 203 reads stake_info.symbol for a positive
\* position; whether the returned collection has that attribute is the
\* gateway's business (hasSymbol); without it AttributeError escapes the
\* handler before sub.close().
C_BalanceReply(hasSymbol) ==
    /\ c_pc = "c_q"
    /\ c_loc.cmd = "/balance"
    /\ c_loc.q = Len(Queries("/balance"))
    /\ IF (\E i \in DOMAIN c_loc.stake_info : c_loc.stake_info[i].stake > 0)
          /\ ~hasSymbol
       THEN c_pc' = "c_crashed" /\ UNCHANGED c_replies
       ELSE c_pc' = "c_close" /\ c_replies' = Append(c_replies, "balance")
    /\ c_loc' = Stored(c_loc)
    /\ UNCHANGED <<c_batch, c_msg, c_report, c_sub, offset, next_id, msgs_left,
                   n_sessions, open_sessions>>
    /\ UNCHANGED <<cfgVars, histVars, chainVars, blkVars, selVars, acqVars, prefVars, ghostVars>>

\* /info, lines 336-360.
C_InfoReply ==
    /\ c_pc = "c_q"
    /\ c_loc.cmd = "/info"
    /\ c_loc.q = Len(Queries("/info"))
    /\ c_replies' = Append(c_replies, "info")
    /\ c_pc' = "c_close"
    /\ c_loc' = Stored(c_loc)
    /\ UNCHANGED <<c_batch, c_msg, c_report, c_sub, offset, next_id, msgs_left,
                   n_sessions, open_sessions>>
    /\ UNCHANGED <<cfgVars, histVars, chainVars, blkVars, selVars, acqVars, prefVars, ghostVars>>

\* /stake and /unstake, lines 397-402 and 418-423: the mutation returns or
\* raises; either way a reply, then await sub.close().
C_Mutated(ok) ==
    /\ c_pc = "c_mut"
    /\ LET amount == c_loc.amount * 10
           netuid == c_loc.netuid
       IN IF ok
          THEN /\ IF c_loc.cmd = "/stake"
                  THEN /\ netuid \in DOMAIN chain_stake
                       /\ ChainCanStake(amount)
                       /\ chain_balance' = chain_balance - amount
                       /\ chain_stake' = [chain_stake EXCEPT ![netuid] = @ + amount]
                       /\ c_replies' = Append(c_replies, "staked")
                  ELSE /\ ChainCanUnstake(netuid, amount)
                       /\ chain_balance' = chain_balance + amount
                       /\ chain_stake' = [chain_stake EXCEPT ![netuid] = @ - amount]
                       /\ c_replies' = Append(c_replies, "unstaked")
          ELSE /\ c_replies' = Append(c_replies,
                     IF c_loc.cmd = "/stake" THEN "stake_error" ELSE "unstake_error")
               /\ UNCHANGED <<chain_balance, chain_stake>>
    /\ c_pc' = "c_close"
    /\ UNCHANGED <<chain_block, chain_price>>
    /\ UNCHANGED <<c_batch, c_msg, c_report, c_sub, c_loc, offset, next_id,
                   msgs_left, n_sessions, open_sessions>>
    /\ UNCHANGED <<cfgVars, histVars, blkVars, selVars, acqVars, prefVars, ghostVars>>

\* await sub.close() returns and the handler returns.
C_Closed ==
    /\ c_pc = "c_close"
    /\ open_sessions' = open_sessions \ {c_sub[1]}
    /\ c_sub' = None
    /\ c_loc' = NoLoc
    /\ c_pc' = LoopNext(c_batch)
    /\ UNCHANGED <<c_batch, c_msg, c_replies, c_report, offset, next_id,
                   msgs_left, n_sessions>>
    /\ UNCHANGED <<cfgVars, histVars, chainVars, blkVars, selVars, acqVars, prefVars, ghostVars>>

(***************************************************************************)
(* /history, lines 227-291.                                                *)
(***************************************************************************)
\* lines 228-231: str(netuid) -> price, subnet 0 left out; a later entry
\* of the listing overwrites an earlier one with the same id.
SubnetInfo(subnets) ==
    LET listed == {i \in DOMAIN subnets : subnets[i].netuid # 0}
        last(k) == CHOOSE i \in listed :
                      /\ Str(subnets[i].netuid) = k
                      /\ \A j \in listed : Str(subnets[j].netuid) = k => j <= i
    IN [k \in {Str(subnets[i].netuid) : i \in listed} |-> subnets[last(k)].price]

\* subnet_info.get(netuid, {}).get("price", 0.0)
PriceOf(subnet_info, k) == IF k \in DOMAIN subnet_info THEN subnet_info[k] ELSE 0

\* lines 233-240: str(netuid) -> staked amount.
CurrentStakes(stake_info) ==
    LET last(k) == CHOOSE i \in DOMAIN stake_info :
                      /\ Str(stake_info[i].netuid) = k
                      /\ \A j \in DOMAIN stake_info :
                            Str(stake_info[j].netuid) = k => j <= i
    IN [k \in {Str(stake_info[i].netuid) : i \in DOMAIN stake_info} |->
           stake_info[last(k)].stake]

RECURSIVE MapSum(_)
MapSum(f) ==
    IF DOMAIN f = {} THEN 0
    ELSE LET k == CHOOSE k \in DOMAIN f : TRUE
         IN f[k] + MapSum([j \in DOMAIN f \ {k} |-> f[j]])

\* lines 243-246
StakeValue(stakes, subnet_info) ==
    MapSum([k \in DOMAIN stakes |-> stakes[k] * PriceOf(subnet_info, k)])

\* lines 248-255; the wall clock is read off the chain's height.
Snapshot(loc) ==
    [time |-> chain_block,
     block |-> loc.current_block,
     wallet_balance |-> loc.wallet_balance,
     stake_value |-> StakeValue(CurrentStakes(loc.stake_info), SubnetInfo(loc.subnets)),
     stakes |-> CurrentStakes(loc.stake_info)]

PreviousValueRepriced(last, subnet_info) ==
    last.wallet_balance + StakeValue(last.stakes, subnet_info)

\* line 267
PreviousValue(last, subnet_info) == last.wallet_balance + last.stake_value

StakeGet(stakes, k) == IF k \in DOMAIN stakes THEN stakes[k] ELSE 0

AmountStakedLastOnly(buffer) ==
    IF buffer = <<>> THEN 0 ELSE buffer[Len(buffer)].stake_amount

\* line 264
AmountStaked(buffer) == SumSeq([i \in DOMAIN buffer |-> buffer[i].stake_amount])

\* lines 261-286: the figures of the summary.
Report(last, current, subnet_info) ==
    [time_diff |-> current.time - last.time,
     block_diff |-> current.block - last.block,
     amount_staked |-> AmountStaked(accumulated_history),
     stake_diff |-> MapSum(current.stakes) - MapSum(last.stakes),
     pnl |-> (current.wallet_balance + current.stake_value)
                - PreviousValue(last, subnet_info),
     increases |-> {k \in DOMAIN current.stakes :
                       current.stakes[k] - StakeGet(last.stakes, k) > 0}]

ClearedKeepsAccumulated(buffer) == buffer

\* line 289
Cleared(buffer) == <<>>

\* The last query returns; lines 227-290 run up to await sub.close().  A
\* listed price that float() rejects raises out of the handler (line 231).
C_HistoryReply ==
    /\ c_pc = "c_q"
    /\ c_loc.cmd = "/history"
    /\ c_loc.q = Len(Queries("/history"))
    /\ LET loc == Stored(c_loc)
           subnet_info == SubnetInfo(loc.subnets)
           current_snapshot == Snapshot(loc)
       IN /\ c_loc' = loc
          /\ IF \E i \in DOMAIN loc.subnets :
                   loc.subnets[i].netuid # 0 /\ ~loc.subnets[i].priceOk
             THEN /\ c_pc' = "c_crashed"
                  /\ UNCHANGED <<c_replies, c_report, last_history_snapshot,
                                 accumulated_history, ghostVars>>
             ELSE /\ c_pc' = "c_close"
                  /\ last_history_snapshot' = Some(current_snapshot)
                  /\ g_snap_info' = subnet_info
                  /\ g_since_snapshot' = 0
                  /\ UNCHANGED g_allocated
                  /\ IF last_history_snapshot = None
                     THEN /\ c_replies' = Append(c_replies, "history_created")
                          /\ UNCHANGED <<c_report, accumulated_history,
                                         g_alloc_since_report, g_reported>>
                     ELSE /\ c_replies' = Append(c_replies, "history_summary")
                          /\ c_report' = Some(Report(last_history_snapshot[1],
                                                     current_snapshot, subnet_info))
                          /\ accumulated_history' = Cleared(accumulated_history)
                          /\ g_alloc_since_report' = FALSE
                          /\ g_reported' = g_reported + c_report'[1].amount_staked
    /\ UNCHANGED <<c_batch, c_msg, c_sub, offset, next_id, msgs_left,
                   n_sessions, open_sessions, purchase_history>>
    /\ UNCHANGED <<cfgVars, chainVars, blkVars, selVars, acqVars, prefVars>>

(***************************************************************************)
(* Start of the process: configuration loaded, nothing staked, the block   *)
(* cycle about to acquire its gateway handle, the control cycle at its     *)
(* first poll (or returned at once when no token is configured, line 117). *)
(***************************************************************************)
InitialBalance == 30     \* the wallet's free balance at start (tenths)

SysStartWith(budget, token, prefs) ==
    /\ tokenSet = token
    /\ paused = FALSE
    /\ preferences = prefs
    /\ exclude_list = <<>>
    /\ stake_amount = 1
    /\ last_history_snapshot = None
    /\ accumulated_history = <<>>
    /\ purchase_history = <<>>
    /\ chain_block = 1
    /\ chain_price = [n \in 1 .. 2 |-> 1]
    /\ chain_stake = [n \in 0 .. 2 |-> 0]
    /\ chain_balance = InitialBalance
    /\ b_pc = "b_acquire"
    /\ b_sub = None
    /\ b_stake_amount = 0
    /\ b_block = 0
    /\ b_subnets = <<>>
    /\ b_chosen = None
    /\ b_stake_action = ""
    /\ b_sel = None
    /\ b_calls = 0
    /\ c_pc = IF token THEN "c_poll" ELSE "c_off"
    /\ c_batch = <<>>
    /\ c_msg = None
    /\ c_replies = <<>>
    /\ c_report = None
    /\ c_sub = None
    /\ c_loc = NoLoc
    /\ offset = 0
    /\ next_id = 1
    /\ msgs_left = budget
    /\ n_sessions = 0
    /\ open_sessions = {}
    /\ g_snap_info = <<>>
    /\ g_alloc_since_report = FALSE
    /\ g_since_snapshot = 0
    /\ g_allocated = 0
    /\ g_reported = 0

SysStart(budget, token) == SysStartWith(budget, token, <<>>)

SysIdle == SysStart(0, FALSE)

PrefIdle ==
    /\ pf_start = <<>>
    /\ pf_n = 0
    /\ pf_last = <<>>
    /\ pf_hit = FALSE

Text(parts) == [hasText |-> TRUE, parts |-> parts]

NoText == [hasText |-> FALSE, parts |-> <<>>]

BlockNext ==
    \/ \E ok \in BOOLEAN : B_Acquire(ok)
    \/ B_GotBlock
    \/ B_GotSubnets
    \/ B_Allocate
    \/ \E ok \in BOOLEAN : B_StakeReturns(ok)
    \/ B_GotRefresh
    \/ B_GotBalance
    \/ B_Sent
    \/ B_NextBlock
    \/ B_QueryFails
    \/ B_Closed

PollNext(batches) ==
    \/ c_pc = "c_poll" /\ \E batch \in batches : C_PollOk(batch)
    \/ C_PollFails
    \/ C_Wake
    \/ C_Dispatch

(***************************************************************************)
(* Spec: the two cycles with the operator sending the commands that act on *)
(* SharedOperatingState alone, well-formed or not.                         *)
(***************************************************************************)
StateTexts ==
    {Text(<<"/pause">>), Text(<<"/start">>), Text(<<"/boost", "1">>),
     Text(<<"/exclude", "1">>), Text(<<"/amount", "2">>), Text(<<"/amount">>)}

StateBatches == SeqsUpTo(StateTexts, MaxMsgs)

PriceMoves == {[n \in 1 .. 2 |-> 1], [n \in 1 .. 2 |-> IF n = 1 THEN 2 ELSE 1]}

Init ==
    /\ \E token \in BOOLEAN : SysStart(MaxMsgs, token)
    /\ SelIdle
    /\ AcqIdle
    /\ PrefIdle

Next ==
    \/ BlockNext
    \/ \E price \in PriceMoves : ChainTick(price)
    \/ PollNext(StateBatches)
    \/ CancelBlockCycle
    \/ CancelControlCycle

Spec == Init /\ [][Next]_vars

(***************************************************************************)
(* SpecParse: the two cycles with the operator sending malformed, unknown  *)
(* and empty messages (and a few well-formed ones); prices stay put.       *)
(***************************************************************************)
ParseTexts ==
    {Text(<<"/info">>), Text(<<"/boost">>), Text(<<"/slash">>), Text(<<"/exclude">>),
     Text(<<"/unstake">>), Text(<<"/stake">>), Text(<<"/amount">>),
     Text(<<"/info", "x">>), Text(<<"/boost", "x">>), Text(<<"/slash", "x">>),
     Text(<<"/exclude", "x">>), Text(<<"/unstake", "x", "1">>),
     Text(<<"/stake", "x", "1">>), Text(<<"/amount", "x">>),
     Text(<<"/unstake", "1">>), Text(<<"/stake", "1">>),
     Text(<<"/unstake", "1", "x">>), Text(<<"/stake", "1", "x">>),
     Text(<<"/foo">>), Text(<<"hello", "1">>), Text(<<>>), NoText,
     Text(<<"/PAUSE">>), Text(<<"/amount", "1e0">>), Text(<<"/boost", "1e0">>),
     Text(<<"/slash", "2">>), Text(<<"/amount", "0">>), Text(<<"/amount", "-1">>)}

ParseBatches == SeqsUpTo(ParseTexts, MaxParseMsgs)

InitParse ==
    /\ \E token \in BOOLEAN : SysStart(MaxParseMsgs, token)
    /\ SelIdle
    /\ AcqIdle
    /\ PrefIdle

NextParse ==
    \/ BlockNext
    \/ ChainTick(chain_price)
    \/ PollNext(ParseBatches)
    \/ CancelBlockCycle
    \/ CancelControlCycle

SpecParse == InitParse /\ [][NextParse]_vars

(***************************************************************************)
(* SpecGateway: the two cycles with the operator sending the commands that *)
(* open a gateway session of their own.                                    *)
(***************************************************************************)
GatewayTexts ==
    {Text(<<"/balance">>), Text(<<"/history">>), Text(<<"/info", "1">>),
     Text(<<"/info", "3">>), Text(<<"/stake", "2", "1">>),
     Text(<<"/unstake", "1", "1">>)}

GatewayBatches == SeqsUpTo(GatewayTexts, MaxMsgs)

GatewayNext ==
    \/ \E ok \in BOOLEAN : C_Acquired(ok)
    \/ C_QueryFails
    \/ C_QueryNext
    \/ \E hasSymbol \in BOOLEAN : C_BalanceReply(hasSymbol)
    \/ C_InfoReply
    \/ C_HistoryReply
    \/ \E ok \in BOOLEAN : C_Mutated(ok)
    \/ C_Closed

InitGateway ==
    /\ \E token \in BOOLEAN : SysStart(MaxMsgs, token)
    /\ SelIdle
    /\ AcqIdle
    /\ PrefIdle

NextGateway ==
    \/ BlockNext
    \/ \E price \in PriceMoves : ChainTick(price)
    \/ PollNext(GatewayBatches)
    \/ GatewayNext
    \/ CancelBlockCycle
    \/ CancelControlCycle

SpecGateway == InitGateway /\ [][NextGateway]_vars

(***************************************************************************)
(* SpecHistory: the two cycles with the operator asking for /history,      *)
(* while the block cycle allocates and prices move; the block cycle's      *)
(* gateway answers every query and accepts every stake here (its failures *)
(* are in the other specifications).                                       *)
(***************************************************************************)
HistoryBatches == SeqsUpTo({Text(<<"/history">>)}, MaxHistMsgs)

InitHistory ==
    /\ SysStart(MaxHistMsgs, TRUE)
    /\ SelIdle
    /\ AcqIdle
    /\ PrefIdle

NextHistory ==
    \/ B_Acquire(TRUE)
    \/ B_GotBlock
    \/ B_GotSubnets
    \/ B_Allocate
    \/ B_StakeReturns(TRUE)
    \/ B_GotRefresh
    \/ B_GotBalance
    \/ B_Sent
    \/ B_NextBlock
    \/ \E price \in PriceMoves : ChainTick(price)
    \/ PollNext(HistoryBatches)
    \/ \E ok \in BOOLEAN : C_Acquired(ok)
    \/ C_QueryFails
    \/ C_QueryNext
    \/ C_HistoryReply
    \/ C_Closed

SpecHistory == InitHistory /\ [][NextHistory]_vars

(***************************************************************************)
(* SpecPrefs and SpecRoundTrip: the handler applied to /boost and /slash   *)
(* messages alone, from a configuration whose preference map is drawn from *)
(* StartPrefs (multipliers in tenths, some below the floor of 0.1).        *)
(***************************************************************************)
StartPrefVals == {-2, 0, 1, 2, 3, 10}

StartPrefs ==
    LET keys == {"1", "5"}
    IN UNION {[K -> StartPrefVals] : K \in SUBSET keys}

\* One message handled to its end (these commands never await).
PrefApply(parts) ==
    LET eff == Handle(parts)
    IN /\ eff.next = "return"
       /\ paused' = eff.paused
       /\ preferences' = eff.preferences
       /\ exclude_list' = eff.exclude_list
       /\ stake_amount' = eff.stake_amount
       /\ pf_last' = parts
       /\ pf_n' = pf_n + 1
       /\ pf_hit' = (\/ pf_hit
                     \/ /\ Lower(parts[1]) = "/slash"
                        /\ PrefGet(preferences, NumVal(parts[2])) - 1 < 1)
       /\ UNCHANGED <<pf_start, tokenSet>>
       /\ UNCHANGED <<histVars, chainVars, blkVars, ctlVars, gwVars, ghostVars>>
       /\ UNCHANGED <<selVars, acqVars>>

InitPrefs ==
    /\ \E prefs \in StartPrefs :
          /\ SysStartWith(0, FALSE, prefs)
          /\ pf_start = prefs
    /\ pf_n = 0
    /\ pf_last = <<>>
    /\ pf_hit = FALSE
    /\ SelIdle
    /\ AcqIdle

RunPrefs ==
    /\ pf_n < MaxPrefCmds
    /\ \E cmd \in {"/boost", "/slash"}, tok \in {"1", "5"} : PrefApply(<<cmd, tok>>)

SpecPrefs == InitPrefs /\ [][RunPrefs]_vars

InitRoundTrip == InitPrefs

RoundTrip ==
    /\ pf_n < 2 * MaxRoundTrips
    /\ PrefApply(<<IF pf_n % 2 = 0 THEN "/boost" ELSE "/slash", "5">>)

SpecRoundTrip == InitRoundTrip /\ [][RoundTrip]_vars

InitSelect == SelInit /\ AcqIdle /\ SysIdle /\ PrefIdle

SpecSelect == InitSelect /\ [][Select]_vars

InitAcquire == AcqInit /\ SelIdle /\ SysIdle /\ PrefIdle

SpecAcquire == InitAcquire /\ [][AcqNext]_vars

\* Every attempt returns or raises: an attempt that is under way ends.
SpecAcquireFair == SpecAcquire /\ WF_vars(AcqNext)

(***************************************************************************)
(* C1.  select_best_subnet returns the first subnet, in iteration order,   *)
(* whose effective score is the maximum among the subnets with id # 0, not *)
(* excluded, price > 0 and effective score > 0; it returns None exactly    *)
(* when there is no such subnet; subnet 0 is never returned.               *)
(***************************************************************************)
Eligible(i) ==
    /\ sel_subnets[i].netuid # 0
    /\ sel_subnets[i].netuid \notin sel_exclude
    /\ sel_subnets[i].priceOk
    /\ sel_subnets[i].price > 0
    /\ ScoreGT(EffectiveScore(sel_subnets[i], sel_prefs), ZeroScore)

EligibleSet == {i \in 1 .. Len(sel_subnets) : Eligible(i)}

IsMaxEligible(i) ==
    /\ i \in EligibleSet
    /\ \A j \in EligibleSet :
          ScoreGE(EffectiveScore(sel_subnets[i], sel_prefs),
                  EffectiveScore(sel_subnets[j], sel_prefs))

C1_SelectFirstMax ==
    sel_out # None =>
        /\ (sel_out[1].best = 0) <=> (EligibleSet = {})
        /\ sel_out[1].best # 0 =>
              /\ IsMaxEligible(sel_out[1].best)
              /\ \A j \in 1 .. (sel_out[1].best - 1) : ~IsMaxEligible(j)
              /\ sel_subnets[sel_out[1].best].netuid # 0
              /\ sel_out[1].score = EffectiveScore(sel_subnets[sel_out[1].best], sel_prefs)

C1_Witness ==
    /\ sel_out # None
    /\ sel_out[1].best = 1
    /\ Len(sel_subnets) = 2
    /\ IsMaxEligible(2)
    /\ sel_subnets[1].netuid # sel_subnets[2].netuid

(***************************************************************************)
(* C2.  In a block-cycle iteration that reaches the allocation step with   *)
(* the paused flag set, the selection is still computed, but the block     *)
(* cycle issues no add_stake call and appends no PurchaseEvent to the      *)
(* batch buffer or to the accumulated buffer, however /pause and /start    *)
(* interleave with the cycle.                                              *)
(***************************************************************************)
SomeCandidate ==
    \E i \in DOMAIN b_subnets :
        /\ ~SelectSkips(b_subnets[i], ListSet(exclude_list))
        /\ ScoreGT(EffectiveScore(b_subnets[i], preferences), ZeroScore)

EventsOfIteration(buffer) == {i \in DOMAIN buffer : buffer[i].block = b_block}

C2_PausedNoAllocation ==
    /\ [][(/\ b_pc = "b_q_stake"
           /\ b_pc' \notin {"b_q_stake", "b_closing", "b_cancelled"}
           /\ paused)
             => /\ b_pc' = "b_q_refresh"
                /\ b_stake_action' = "Paused"
                /\ b_calls' = 0
                /\ (b_chosen' # None) <=> SomeCandidate
                /\ UNCHANGED <<purchase_history, accumulated_history, chainVars>>]_vars
    /\ [](b_stake_action = "Paused" =>
             /\ b_calls = 0
             /\ EventsOfIteration(purchase_history) = {}
             /\ EventsOfIteration(accumulated_history) = {})

C2_Witness ==
    /\ b_stake_action = "Paused"
    /\ b_chosen # None
    /\ ~paused
    /\ b_pc = "b_q_balance"
    /\ purchase_history # <<>>

(***************************************************************************)
(* C3.  A message to /info, /boost, /slash, /exclude, /unstake, /stake or  *)
(* /amount with a required argument missing or not numeric gets a usage    *)
(* reply, raises nothing out of the handler, and leaves                    *)
(* SharedOperatingState, both history buffers and the chain untouched.     *)
(***************************************************************************)
ArgCmds == {"/info", "/boost", "/slash", "/exclude", "/unstake", "/stake", "/amount"}

Malformed(parts) ==
    /\ Len(parts) >= 1
    /\ Lower(parts[1]) \in ArgCmds
    /\ IF Lower(parts[1]) = "/amount"
       THEN Len(parts) < 2 \/ ~IsFloat(parts[2])
       ELSE \/ Len(parts) < 2
            \/ ~IsInt(parts[2])
            \/ /\ Lower(parts[1]) \in {"/unstake", "/stake"}
               /\ (Len(parts) < 3 \/ ~IsFloat(parts[3]))

Dispatching(P(_)) ==
    /\ c_pc = "c_loop"
    /\ Head(c_batch).hasText
    /\ P(Head(c_batch).parts)

C3_MalformedGetsUsage ==
    [][Dispatching(Malformed) =>
          /\ c_replies' = <<"usage">>
          /\ c_pc' # "c_crashed"
          /\ UNCHANGED <<cfgVars, histVars, chainVars>>]_vars

(***************************************************************************)
(* C4.  A message whose first token is none of the eleven commands gets    *)
(* exactly one "invalid command" reply and changes no state.               *)
(***************************************************************************)
Recognised ==
    {"/pause", "/start", "/balance", "/history", "/info", "/boost", "/slash",
     "/exclude", "/unstake", "/stake", "/amount"}

Unknown(parts) == Len(parts) = 0 \/ Lower(parts[1]) \notin Recognised

C4_UnknownGetsInvalid ==
    [][Dispatching(Unknown) =>
          /\ c_replies' = <<"invalid">>
          /\ UNCHANGED <<cfgVars, histVars, chainVars>>]_vars

(***************************************************************************)
(* C5.  No error ends the control cycle: whatever is raised while polling  *)
(* or while handling a command is caught and the cycle polls again, so     *)
(* that an error in the control cycle never stops the block cycle.         *)
(***************************************************************************)
C5_ControlCycleSurvives == c_pc # "c_crashed" /\ b_pc # "b_cancelled"

(***************************************************************************)
(* C6.  When a step of a block-cycle iteration raises, the block loop      *)
(* stops, its gateway handle is closed and the whole process ends: the     *)
(* control cycle does not go on to receive messages.                       *)
(***************************************************************************)
C6_BlockFailureEndsProcess ==
    [][b_pc = "b_done" =>
          /\ b_sub = None
          /\ ~(c_pc = "c_poll" /\ c_pc' = "c_loop")]_vars

(***************************************************************************)
(* C7.  Every command handler that acquired a gateway handle has closed it *)
(* when it finishes, on every exit path: the control cycle holds no open   *)
(* handle whenever no command is being handled.                            *)
(***************************************************************************)
C7_HandlerClosesHandle ==
    c_pc \in {"c_poll", "c_sleep", "c_loop", "c_off", "c_crashed"} =>
        /\ c_sub = None
        /\ \A h \in open_sessions : b_sub = Some(h)

(***************************************************************************)
(* C8.  /history with no prior snapshot stores the current state as the    *)
(* snapshot, replies that no history is available and reports no PnL      *)
(* figure; with a prior snapshot it reports the time, block and PnL        *)
(* deltas, replaces the snapshot and empties the accumulated buffer, so    *)
(* that a further /history with no allocation in between reports an amount *)
(* staked of 0.  /history never changes the batch buffer.                  *)
(***************************************************************************)
\* The step in which /history's last query returns and the reply is made.
HistoryReplies ==
    /\ c_pc = "c_q"
    /\ c_loc.cmd = "/history"
    /\ c_pc' = "c_close"
    /\ c_replies' # Append(c_replies, "query_error")

C8_HistorySnapshotCycle ==
    [][HistoryReplies =>
          /\ purchase_history' = purchase_history
          /\ last_history_snapshot' = Some(Snapshot(c_loc'))
          /\ IF last_history_snapshot = None
             THEN /\ c_replies' = Append(c_replies, "history_created")
                  /\ c_report' = None
             ELSE /\ c_replies' = Append(c_replies, "history_summary")
                  /\ c_report' # None
                  /\ c_report'[1].time_diff = chain_block - last_history_snapshot[1].time
                  /\ c_report'[1].block_diff =
                        c_loc'.current_block - last_history_snapshot[1].block
                  /\ accumulated_history' = <<>>
                  /\ ~g_alloc_since_report => c_report'[1].amount_staked = 0]_vars

\* A summary that reports amount staked = 0 although the wallet holds stake
\* the block cycle bought (still in the batch buffer): an earlier summary
\* emptied the accumulated buffer.
C8_Witness ==
    /\ c_pc = "c_close"
    /\ c_report # None
    /\ c_report[1].amount_staked = 0
    /\ accumulated_history = <<>>
    /\ purchase_history # <<>>
    /\ ~g_alloc_since_report
    /\ \E n \in DOMAIN chain_stake : chain_stake[n] > 0

(***************************************************************************)
(* C9.  The PnL of a non-first /history is (current wallet balance + sum   *)
(* of current stake x current price) minus (prior wallet balance + sum of  *)
(* prior stake x the price listed when the prior snapshot was taken): the  *)
(* prior side is the value stored in the prior snapshot.  A position on    *)
(* subnet 0 or on a subnet absent from the listing counts at price 0.      *)
(***************************************************************************)
HistoryReports == HistoryReplies /\ last_history_snapshot # None

CurrentValue(loc) ==
    loc.wallet_balance
        + StakeValue(CurrentStakes(loc.stake_info), SubnetInfo(loc.subnets))

AttemptsOn(e) == {k \in 1 .. Len(acq_log) : acq_log[k].ep = e}

C10_FailoverOrder ==
    /\ \A k \in 1 .. Len(acq_log) - 1 : acq_log[k].ep <= acq_log[k + 1].ep
    /\ \A e \in 1 .. Len(ENDPOINTS) : Cardinality(AttemptsOn(e)) <= 3
    /\ \A k \in 1 .. Len(acq_log) :
          acq_log[k].outcome = "ok" => k = Len(acq_log) /\ acq_pc = "connected"
    /\ acq_pc = "connected" =>
          /\ acq_log[Len(acq_log)].outcome = "ok"
          /\ acq_handle = Some(ENDPOINTS[acq_log[Len(acq_log)].ep])
          /\ \A e \in 1 .. acq_log[Len(acq_log)].ep - 1 :
                Cardinality(AttemptsOn(e)) = 3
          /\ (acq_handle = Some("archive") /\ Cardinality(AttemptsOn(3)) = 1)
                => Len(acq_log) = 3 + 3 + 1
    /\ acq_pc # "connected" => acq_handle = None

C10_Witness ==
    /\ acq_pc = "connected"
    /\ acq_handle = Some("archive")
    /\ Len(acq_log) = 7

(***************************************************************************)
(* C11.  get_working_subtensor fails only after every configured endpoint  *)
(* has failed 3 consecutive attempts (3 x the number of endpoints failed   *)
(* attempts in all), never while an endpoint is untried, and it ends, with *)
(* a handle or with failure, when every attempt returns or raises.         *)
(***************************************************************************)
C11_FailsOnlyWhenExhausted ==
    /\ [](acq_pc = "exhausted" =>
             /\ Len(acq_log) = 3 * Len(ENDPOINTS)
             /\ \A k \in 1 .. Len(acq_log) : acq_log[k].outcome # "ok"
             /\ \A e \in 1 .. Len(ENDPOINTS) :
                   AttemptsOn(e) = {3 * (e - 1) + j : j \in 1 .. 3})
    /\ <>(acq_pc \in {"connected", "exhausted"})

C11_Witness ==
    /\ acq_pc = "exhausted"
    /\ Len(acq_log) = 9
    /\ acq_handle = None

(***************************************************************************)
(* C12.  In a block-cycle iteration a digest is dispatched if and only if  *)
(* the block height is an exact multiple of the configured interval and    *)
(* the batch buffer is non-empty; then the batch buffer is empty at the    *)
(* end of the iteration, whatever became of the dispatch; otherwise the    *)
(* batch buffer is left as it is.  The notification step never changes the *)
(* accumulated buffer.                                                     *)
(***************************************************************************)
NotifyStep ==
    /\ (b_pc = "b_q_balance" /\ b_pc' \in {"b_sending", "b_wait"}) =>
          (/\ (b_pc' = "b_sending") <=>
                 (b_block % TelegramInterval = 0 /\ purchase_history # <<>>)
           /\ UNCHANGED <<purchase_history, accumulated_history>>)
    /\ (b_pc = "b_sending" /\ b_pc' = "b_wait") =>
          (/\ purchase_history' = <<>>
           /\ UNCHANGED accumulated_history)
    /\ (b_pc = "b_sending" /\ b_pc' = "b_sending") =>
          (UNCHANGED purchase_history)

C12_DigestCadence ==
    /\ [][NotifyStep]_vars
    /\ []((b_pc = "b_wait" /\ b_block % TelegramInterval = 0) =>
              purchase_history = <<>>)

\* The iteration of a block on the interval has ended with the batch buffer
\* emptied and the accumulated buffer still holding the purchases.
C12_Witness ==
    /\ b_pc = "b_wait"
    /\ b_block % TelegramInterval = 0
    /\ purchase_history = <<>>
    /\ accumulated_history # <<>>

(***************************************************************************)
(* C13.  After any /slash n the multiplier stored for n is at least 0.1;   *)
(* from a state in which all multipliers are at least 0.1, /boost and      *)
(* /slash commands keep them so; /boost n always raises the multiplier of  *)
(* n by 0.1, with no upper bound.                                          *)
(***************************************************************************)
AllAtLeastFloor(prefs) == \A k \in DOMAIN prefs : prefs[k] >= 1

PrefStep ==
    pf_n' = pf_n + 1 =>
        LET cmd == pf_last'[1]
            n == NumVal(pf_last'[2])
        IN /\ Str(n) \in DOMAIN preferences'
           /\ cmd = "/slash" => preferences'[Str(n)] >= 1
           /\ cmd = "/boost" => preferences'[Str(n)] = PrefGet(preferences, n) + 1
           /\ AllAtLeastFloor(preferences) => AllAtLeastFloor(preferences')

C13_SlashFloorBoostUnbounded == [][PrefStep]_vars

\* Three /slash 5 from a multiplier of 0.3: the third is clamped to 0.1.
C13_Witness ==
    /\ "5" \in DOMAIN pf_start
    /\ pf_start["5"] = 3
    /\ pf_n = 3
    /\ pf_last = <<"/slash", "5">>
    /\ pf_hit
    /\ preferences["5"] = 1

(***************************************************************************)
(* C14.  For subnet 5 and any starting multiplier (absent = 1.0), /boost 5 *)
(* followed by /slash 5, repeated ten times, leaves the multiplier at its  *)
(* starting value (in exact tenths), unless a /slash hit the floor of 0.1, *)
(* in which case it is 0.1 after every later pair.                         *)
(***************************************************************************)
C14_BoostSlashRoundTrip ==
    (pf_n > 0 /\ pf_n % 2 = 0) =>
        PrefGet(preferences, 5) = IF pf_hit THEN 1 ELSE PrefGet(pf_start, 5)

C14_Witness ==
    /\ pf_n = 2 * MaxRoundTrips
    /\ "5" \notin DOMAIN pf_start
    /\ ~pf_hit
    /\ preferences["5"] = 10

(***************************************************************************)
(* C15.  The poll cursor is 1 + the highest message id seen so far (0      *)
(* before any message), in particular after every poll batch; it never     *)
(* decreases, and no message with an id below the cursor is handled.       *)
(***************************************************************************)
\* Ids are handed out from 1; those of the batch not yet looked at are the
\* last Len(c_batch) of them.
HighestIdSeen == next_id - 1 - Len(c_batch)

CursorStep ==
    /\ offset' >= offset
    /\ (c_pc = "c_loop" /\ Len(c_batch') < Len(c_batch)) =>
          (/\ Head(c_batch).update_id >= offset
           /\ Head(c_batch).update_id > HighestIdSeen)

C15_CursorFollowsHighestId ==
    /\ [](offset = IF HighestIdSeen = 0 THEN 0 ELSE HighestIdSeen + 1)
    /\ [][CursorStep]_vars

\* Two polls of one message each: the cursor has passed both.
C15_Witness ==
    /\ c_pc = "c_sleep"
    /\ c_batch = <<>>
    /\ next_id = 3
    /\ offset = 3
    /\ msgs_left = MaxMsgs - 2

(***************************************************************************)
(* C16.  A command handled while the block cycle is suspended at a gateway *)
(* query before its allocation step takes effect on that allocation step:  *)
(* /pause, /start, /boost, /slash, /exclude and /amount alike.  The amount *)
(* committed is the base stake unit as last set before the commit, times   *)
(* the multiplier of the chosen subnet.                                    *)
(***************************************************************************)
AllocationStep ==
    (b_pc = "b_q_stake" /\ b_pc' \in {"b_staking", "b_q_refresh"}) =>
        (/\ paused => b_pc' = "b_q_refresh"
         /\ b_pc' = "b_staking" =>
               (/\ ~paused
                /\ b_sel'[1].netuid \notin ListSet(exclude_list)
                /\ b_sel'[1].pref_multiplier = PrefGet(preferences, b_sel'[1].netuid)
                /\ b_sel'[1].actual_stake =
                      stake_amount * PrefGet(preferences, b_sel'[1].netuid)))

C16_CommandsReachAllocation == [][AllocationStep]_vars

(***************************************************************************)
(* C17.  A block-cycle iteration issues at most one add_stake call.  When  *)
(* the call succeeds exactly one PurchaseEvent is appended to both the     *)
(* batch buffer and the accumulated buffer; when it fails no event is      *)
(* appended to either, the call is not retried, and the iteration goes on  *)
(* to the refresh, notify and wait steps.                                  *)
(***************************************************************************)
StakeCallEnds ==
    (b_pc = "b_staking" /\ b_pc' \notin {"b_staking", "b_cancelled"}) =>
        (/\ b_pc' = "b_q_refresh"
         /\ b_calls' = 1
         /\ IF chain_stake' # chain_stake
            THEN LET e == accumulated_history'[Len(accumulated_history')]
                 IN /\ purchase_history' = Append(purchase_history, e)
                    /\ accumulated_history' = Append(accumulated_history, e)
                    /\ e.block = b_block
                    /\ e.netuid = b_sel[1].netuid
                    /\ e.stake_amount = b_sel[1].actual_stake
            ELSE /\ UNCHANGED <<purchase_history, accumulated_history>>
                 /\ b_stake_action' = "Stake error")

C17_OneCallOneEvent ==
    /\ [][StakeCallEnds]_vars
    /\ [](b_calls <= 1)
    /\ [](\A i, j \in DOMAIN accumulated_history :
             i # j => accumulated_history[i].block # accumulated_history[j].block)

\* The second iteration's call failed after the first one's succeeded.
C17_Witness ==
    /\ b_stake_action = "Stake error"
    /\ b_pc = "b_q_balance"
    /\ b_calls = 1
    /\ b_block = 2
    /\ Len(purchase_history) = 1
    /\ purchase_history = accumulated_history
    /\ purchase_history[1].block = 1

(***************************************************************************)
(* C18.  Within get_working_subtensor every failed attempt, whether it     *)
(* failed while the session was being opened and initialised or in the     *)
(* verifying query, closes the session it opened before the next attempt;  *)
(* so on return exactly one session is open, the returned one, and on      *)
(* failure none is.                                                        *)
(***************************************************************************)
OpenSessionsOfAcquire == {k \in 1 .. Len(acq_log) : ~acq_log[k].closed}

C18_FailedAttemptsClosed ==
    /\ \A k \in 1 .. Len(acq_log) : acq_log[k].outcome # "ok" => acq_log[k].closed
    /\ acq_pc = "connected" => OpenSessionsOfAcquire = {Len(acq_log)}
    /\ acq_pc = "exhausted" => OpenSessionsOfAcquire = {}

(***************************************************************************)
(* C19.  The two cycles never share a gateway handle, and every iteration  *)
(* of the block cycle acquires its own handle and releases it before the   *)
(* next iteration: the handle of one iteration is not used in the next.    *)
(***************************************************************************)
NextIterationStarts == b_pc = "b_wait" /\ b_pc' = "b_q_block"

C19_HandlePerIteration ==
    /\ [](c_sub # None => c_sub # b_sub)
    /\ [][NextIterationStarts =>
             /\ b_sub' # b_sub
             /\ b_sub[1] \notin open_sessions']_vars

(***************************************************************************)
(* C20.  /exclude n adds n to the exclusion set when it is absent and      *)
(* leaves the set as it is when n is present (no duplicate is ever added); *)
(* the set only grows; and once /exclude n has been handled no later       *)
(* selection of the block cycle chooses n and no add_stake selected after  *)
(* that targets n.                                                         *)
(***************************************************************************)
IsExclude(parts) ==
    /\ Len(parts) >= 2
    /\ Lower(parts[1]) = "/exclude"
    /\ IsInt(parts[2])

ExcludeStep ==
    /\ ListSet(exclude_list) \subseteq ListSet(exclude_list')
    /\ Dispatching(IsExclude) =>
          LET n == NumVal(Head(c_batch).parts[2])
          IN exclude_list' = IF n \in ListSet(exclude_list)
                             THEN exclude_list
                             ELSE Append(exclude_list, n)
    /\ (b_pc = "b_q_stake" /\ b_pc' \in {"b_staking", "b_q_refresh"}) =>
          (/\ b_chosen' # None => b_chosen'[1] \notin ListSet(exclude_list)
           /\ b_pc' = "b_staking" => b_sel'[1].netuid \notin ListSet(exclude_list))

C20_ExcludedNeverChosen ==
    /\ [][ExcludeStep]_vars
    /\ [](Cardinality(ListSet(exclude_list)) = Len(exclude_list))

\* /exclude 1 was sent twice and the selection then went to subnet 2.
C20_Witness ==
    /\ exclude_list = <<1>>
    /\ c_replies = <<"already_excluded">>
    /\ b_chosen = Some(2)

(***************************************************************************)
(* C21.  The base stake unit amount is positive in every reachable state:  *)
(* from a positive configured value no command, /amount with a zero or     *)
(* negative argument included, makes it non-positive, so every add_stake   *)
(* of the block cycle commits a positive amount.                           *)
(***************************************************************************)
C21_StakeAmountPositive ==
    /\ stake_amount > 0
    /\ b_sel # None => b_sel[1].actual_stake > 0

(***************************************************************************)
(* C22.  Whenever a HistorySnapshot exists, the keys of its per-subnet     *)
(* stakes map are exactly the ids of the subnets on which the wallet held  *)
(* a nonzero stake when the snapshot was taken: no key with amount 0, no   *)
(* nonzero position missing.                                               *)
(***************************************************************************)
\* The positions the wallet holds on the chain.
HeldSubnets == {Str(n) : n \in {m \in DOMAIN chain_stake : chain_stake[m] # 0}}

C22_SnapshotKeysAreHoldings ==
    [][HistoryReplies =>
          LET stakes == last_history_snapshot'[1].stakes
          IN /\ DOMAIN stakes = HeldSubnets
             /\ \A k \in DOMAIN stakes : stakes[k] # 0]_vars

(***************************************************************************)
(* C23.  The "amount staked" of a non-first /history is the sum of the     *)
(* stake amounts of exactly the PurchaseEvents created after the prior     *)
(* snapshot was stored; allocations made before the baseline /history are  *)
(* not counted by the second call.                                         *)
(***************************************************************************)
C23_AmountSincePriorSnapshot ==
    [][HistoryReports =>
          /\ c_report' # None
          /\ c_report'[1].amount_staked = g_since_snapshot]_vars

(***************************************************************************)
(* C24.  However the block cycle interleaves with /history (which suspends *)
(* at four gateway queries), no PurchaseEvent is lost or counted twice:    *)
(* each successful allocation stays in the accumulated buffer until, and   *)
(* is part of the "amount staked" of, exactly one reporting /history; the  *)
(* sum and the clearing of the buffer are never separated by an append.    *)
(***************************************************************************)
BufferTotal(buffer) == SumSeq([i \in DOMAIN buffer |-> buffer[i].stake_amount])

AccumulatedStep ==
    IF HistoryReports
    THEN /\ c_report' # None
         /\ c_report'[1].amount_staked = BufferTotal(accumulated_history)
         /\ accumulated_history' = <<>>
    ELSE \/ accumulated_history' = accumulated_history
         \/ /\ Len(accumulated_history') = Len(accumulated_history) + 1
            /\ SubSeq(accumulated_history', 1, Len(accumulated_history))
                  = accumulated_history
            /\ b_pc = "b_staking"

C24_EventsCountedOnce ==
    /\ [][AccumulatedStep]_vars
    /\ [](g_allocated = g_reported + BufferTotal(accumulated_history))

\* A summary has counted the first allocation while the add_stake of the
\* next iteration is in flight.
C24_Witness ==
    /\ c_pc = "c_close"
    /\ c_report # None
    /\ c_report[1].amount_staked > 0
    /\ g_reported = g_allocated
    /\ accumulated_history = <<>>
    /\ b_pc = "b_staking"
    /\ b_block = 2
====
